---- MODULE Spec2Model ----
(***************************************************************************)
(* Model of package mesa (src/mesa.go): the table-driven test and          *)
(* benchmark harness.  One thread of control walks through Run; every user *)
(* callback (Init, FieldsFn, NewInstance, InputFn, BeforeCall, Target,     *)
(* Check, Cleanup, Teardown) is one step whose behaviour is chosen from    *)
(* Behaviours.  The host (package testing) is modelled at the places where *)
(* the code calls it: t.Run, t.Skip, t.Cleanup, FailNow (runtime.Goexit of *)
(* the sub-run), the panic of a nil function call, b.N and the timer.      *)
(***************************************************************************)
EXTENDS Integers, Sequences, FiniteSets, TLC

VARIABLES
    kind,       \* which Run is called: "method", "function", "benchmark"
    fm,         \* the FunctionMesa the caller built (kind = "function")
    m,          \* the MethodMesa / MethodBenchmarkMesa the engine runs
    nCases,     \* len(m.Cases)
    pc,         \* position of the thread of control inside Run
    idx,        \* number of range iterations started (index of the case)
    c,          \* FunctionMesa.Run: the function case being translated
    elem,       \* m.Cases[idx]: the slice element the range copies from
    tt,         \* the range variable tt / bb: a copy of m.Cases[idx]
    inst,       \* the instance NewInstance returned for this sub-run
    out,        \* the output of the last Target call
    ctx,        \* the Ctx of the sub-run (newCtx at line 190 / 437)
    bctx,       \* the Ctx of the batch (newCtx at line 174 / 419)
    cleanups,   \* callbacks registered with t.Cleanup in this sub-run
    sub,        \* host state of the sub-run: failed, skipped, panicking
    calls,      \* user callbacks invoked in this execution of the sub-run
    args,       \* what the callbacks of this execution received
    outcome,    \* the host's report for every finished case, in order
    batch,      \* Init / Teardown bookkeeping of this Run call
    b,          \* benchmark host state: N, loop counter, timer, metrics
    env         \* the caller's world: which tables and user code are drawn

vars == <<kind, fm, m, nCases, pc, idx, c, elem, tt, inst, out, ctx, bctx,
          cleanups, sub, calls, args, outcome, batch, b, env>>

----------------------------------------------------------------------------
(* Bounds of the model.                                                    *)

\* Largest number of cases in m.Cases.
MaxCases == 2

\* Largest iteration count b.N the host is asked for (-benchtime=Nx).
MaxN == 3

\* Bits of the significand of the model's binary floating point numbers
\* (float64 has 53; the rounding rule is the same).
Precision == 4

----------------------------------------------------------------------------
(* Function values.  A Go func field is nil, a user function, or one of    *)
(* the closures FunctionMesa.Run builds around a user function.            *)

NilFn == [tag |-> "nil"]

UserFn(ret) == [tag |-> "user", ret |-> ret]

Hook == [tag |-> "user"]

\* The closure `func(...) { return f(...) }` built around the field f.
Closure(f) == [tag |-> "closure", inner |-> f]

IsNil(f) == f.tag = "nil"

\* What calling f does: "panic" for a nil func value (also when the nil
\* value is called from inside a closure), "user" when user code runs.
CallOf(f) ==
    IF f.tag = "nil" THEN "panic"
    ELSE IF f.tag = "closure" THEN (IF f.inner.tag = "nil" THEN "panic" ELSE "user")
    ELSE "user"

\* The value a provider returns when it runs.
RetOf(f) == IF f.tag = "closure" THEN f.inner.ret ELSE f.ret

\* A func field that is present or absent.
Opt(present, f) == IF present THEN f ELSE NilFn

\* checkAndSet(dst, shouldUpdate, val): *dst = val only if shouldUpdate.
checkAndSet(dst, shouldUpdate, val) == IF shouldUpdate THEN val ELSE dst

\* What a user callback does with the assertion facades of its Ctx:
\* nothing fails, ctx.As records a failure and returns, ctx.Re records a
\* failure and calls FailNow.
Behaviours == {"ok", "nonfatal", "fatal"}

\* Values of FieldsType, InputType and OutputType are tuples: <<n>> is the
\* int n, <<a, b>> is struct{a, b int}, << >> is the zero value nil.
Zero == << >>

----------------------------------------------------------------------------
(* float64 arithmetic of the metric totals, at Precision bits.  A number   *)
(* is <<mant, exp>>, worth mant * 2^exp, with 2^(Precision-1) <= mant <    *)
(* 2^Precision, or <<0, 0>>.  Results are rounded to nearest, ties to even.*)

RECURSIVE Pow2(_)
Pow2(n) == IF n <= 0 THEN 1 ELSE 2 * Pow2(n - 1)

\* The number of low bits to drop so that n fits in Precision bits.
RECURSIVE Excess(_)
Excess(n) == IF n < Pow2(Precision) THEN 0 ELSE 1 + Excess(n \div 2)

\* Shift a non-zero significand left until it is normalised.
RECURSIVE Normalise(_, _)
Normalise(n, e) ==
    IF n >= Pow2(Precision - 1) THEN <<n, e>> ELSE Normalise(2 * n, e - 1)

\* n * 2^e (plus a non-zero remainder below the last bit of n when sticky)
\* rounded to Precision bits.
RoundSticky(n, e, sticky) ==
    IF n = 0 THEN <<0, 0>>
    ELSE LET k    == Excess(n)
             q    == n \div Pow2(k)
             r    == n % Pow2(k)
             half == Pow2(k - 1)
             up   == k > 0 /\ (r > half \/ (r = half /\ (sticky \/ q % 2 = 1)))
             q1   == IF up THEN q + 1 ELSE q
         IN  IF q1 = Pow2(Precision) THEN <<Pow2(Precision - 1), e + k + 1>>
             ELSE Normalise(q1, e + k)

Round(n, e) == RoundSticky(n, e, FALSE)

\* float64(n) of a small non-negative integer.
Float(n) == Round(n, 0)

MinOf(x, y) == IF x < y THEN x ELSE y

\* x + y of two float64 values.
FAdd(x, y) ==
    IF x[1] = 0 THEN y
    ELSE IF y[1] = 0 THEN x
    ELSE LET e == MinOf(x[2], y[2])
         IN  Round(x[1] * Pow2(x[2] - e) + y[1] * Pow2(y[2] - e), e)

\* Guard bits of the quotient: enough for every divisor below 2^4.
GuardBits == Precision + 4

\* x / float64(n) for an iteration count n >= 1.
FDiv(x, n) ==
    LET num == x[1] * Pow2(GuardBits)
    IN  RoundSticky(num \div n, x[2] - GuardBits, num % n # 0)

----------------------------------------------------------------------------
(* The user code of the repository's examples.                             *)

\* No instance yet (before NewInstance returns).
NoInst == [id |-> -1, Value |-> 0]

\* The nil instance of a function-shaped harness.
NilInst == [id |-> 0, Value |-> 0]

\* A constructor that hands out the instance of the first case again.
NewMyStruct_Shared(i, fields) == [id |-> 1, Value |-> fields[1]]

\* NewInstance of the examples: &MyStruct{Value: value}, allocated for
\* the sub-run of case i.
NewMyStruct(i, fields) == [id |-> i, Value |-> fields[1]]

\* MyStruct.Add: s.Value += n.
MyStructAdd(s, n) == [s EXCEPT !.Value = @ + n]

\* Add(a, b) of the examples.
Add(x, y) == x + y

\* The bounded buffer of the buffer scenario: NewInstance(limit) makes
\* Buffer{limit}, allocated for the sub-run of case i.
NewBuffer(i, fields) == [id |-> i, limit |-> fields[1], msgs |-> << >>]

\* The error Buffer.Add returns when the buffer is full.
BufferFullError == <<"BufferFullError">>

\* Buffer.Add(msg): the buffer afterwards and the error returned.
BufferAdd(s, msg) ==
    IF Len(s.msgs) >= s.limit
    THEN [inst |-> s, out |-> BufferFullError]
    ELSE [inst |-> [s EXCEPT !.msgs = Append(@, msg)], out |-> Zero]

\* The number of messages the pre-call of case B adds.
PreCallMessages == 10

\* The pre-call of case B: Add called PreCallMessages times.
RECURSIVE BufferFill(_, _)
BufferFill(s, n) ==
    IF n = 0 THEN s ELSE BufferFill(BufferAdd(s, <<"pre", n>>).inst, n - 1)

----------------------------------------------------------------------------
(* Ctx.                                                                    *)

\* newCtx: empty values and metrics.
newCtx == [values |-> << >>, metrics |-> << >>]

\* c.metrics[name] += value (a missing name reads as 0).
AddMetric(cx, value, name) ==
    LET old == IF name \in DOMAIN cx.metrics THEN cx.metrics[name] ELSE <<0, 0>>
    IN  [cx EXCEPT !.metrics = (name :> FAdd(old, value)) @@ cx.metrics]

\* Ctx.ReportMetric(value, name) on a benchmark Ctx, called once for
\* every <<value, name>> of the sequence reps.
RECURSIVE ReportMetric(_, _)
ReportMetric(cx, reps) ==
    IF reps = << >> THEN cx
    ELSE ReportMetric(AddMetric(cx, Head(reps)[1], Head(reps)[2]), Tail(reps))

\* A map that keeps the first value of every key.
SetValue_KeepFirst(cx, name, val) ==
    [cx EXCEPT !.values = cx.values @@ (name :> val)]

\* Ctx.SetValue, line 84: c.values[name] = val.
SetValue(cx, name, val) ==
    [cx EXCEPT !.values = (name :> val) @@ cx.values]

\* Ctx.GetValue, line 89: c.values[name]; a Go map yields the zero value
\* of its element type, a nil interface, for a key it does not hold.
GetValue(cx, name) ==
    IF name \in DOMAIN cx.values THEN cx.values[name] ELSE Zero

\* The Ctx after a hook that makes the call st on it: << >> for no call,
\* <<name, val>> for ctx.SetValue(name, val).
Stored(cx, st) == IF st = << >> THEN cx ELSE SetValue(cx, st[1], st[2])

\* What a hook reads from the Ctx it was handed: GetValue of every name
\* (in the worlds whose hooks store values).
Seen(cx, on) == IF on THEN [name \in {"a", "b"} |-> GetValue(cx, name)] ELSE << >>

\* The SetValue calls made on the Ctx so far, after the call st.
Logged(log, st) == IF st = << >> THEN log ELSE Append(log, st)

\* A value of type any: its dynamic type and what it holds.  The nil
\* interface holds no type.
NilAny == [type |-> "nil", val |-> 0]

DynValues == {[type |-> "int", val |-> 1], [type |-> "uint", val |-> 1], NilAny}

\* The types a caller instantiates MustAssert with.
CastTypes == {"int", "uint"}

\* *new(T) for the types above.
ZeroOf(T) == [type |-> T, val |-> 0]

\* A conversion that checks nothing.
MustAssert_Unchecked(T, in) == [ok |-> TRUE, got |-> in, failure |-> ""]

\* MustAssert[T](ctx, in): val, ok := in.(T), then ctx.Re.Truef(ok, ...).
\* ok is whether the dynamic type of in is T; got is val, which the
\* caller receives only when the assertion passed; failure is the text
\* the fatal assertion records.
MustAssert(T, in) ==
    LET ok == in.type = T
    IN  [ok |-> ok, got |-> IF ok THEN in ELSE ZeroOf(T),
         failure |-> IF ok THEN "" ELSE "Cannot assert type"]

\* No call of MustAssert.
NoCast == [called |-> FALSE, T |-> "", in |-> NilAny, ok |-> FALSE,
           got |-> NilAny, failure |-> ""]

\* The result of the call ca of a hook: << >> for no call, <<T, in>> for
\* MustAssert[T](ctx, in).
Cast(ca) ==
    IF ca = << >> THEN NoCast
    ELSE [called |-> TRUE, T |-> ca[1], in |-> ca[2],
          ok |-> MustAssert(ca[1], ca[2]).ok,
          got |-> MustAssert(ca[1], ca[2]).got,
          failure |-> MustAssert(ca[1], ca[2]).failure]

\* What a hook that behaves as beh does when it starts with the call ca:
\* require's Truef(false) is FailNow.
Casting(beh, ca) == IF Cast(ca).called /\ ~Cast(ca).ok THEN "fatal" ELSE beh

----------------------------------------------------------------------------
(* The harness values.                                                     *)

\* The zero MethodMesa.
ZeroMesa ==
    [Init |-> NilFn, NewInstance |-> NilFn, Target |-> NilFn,
     BeforeCall |-> NilFn, Check |-> NilFn, Cleanup |-> NilFn,
     Teardown |-> NilFn]

\* A MethodMesa / MethodBenchmarkMesa with the required NewInstance and
\* Target and the optional fields as given.
MethodMesa(init, bc, ck, cl, td) ==
    [Init |-> Opt(init, Hook), NewInstance |-> Hook, Target |-> Hook,
     BeforeCall |-> Opt(bc, Hook), Check |-> Opt(ck, Hook),
     Cleanup |-> Opt(cl, Hook), Teardown |-> Opt(td, Hook)]

\* A FunctionMesa with the required Target and the optional fields.
FunctionMesa(init, bc, ck, cl, td) ==
    [Init |-> Opt(init, Hook), Target |-> Hook,
     BeforeCall |-> Opt(bc, Hook), Check |-> Opt(ck, Hook),
     Cleanup |-> Opt(cl, Hook), Teardown |-> Opt(td, Hook)]

ZeroFunctionMesa ==
    [Init |-> NilFn, Target |-> NilFn, BeforeCall |-> NilFn, Check |-> NilFn,
     Cleanup |-> NilFn, Teardown |-> NilFn]

\* The zero MethodCase (also the value of tt before the first iteration).
ZeroCase ==
    [Skip |-> FALSE, Fields |-> Zero, FieldsFn |-> NilFn, Input |-> Zero,
     InputFn |-> NilFn, BeforeCall |-> NilFn, Check |-> NilFn,
     Cleanup |-> NilFn]

ZeroFunctionCase ==
    [Skip |-> FALSE, Input |-> Zero, InputFn |-> NilFn, BeforeCall |-> NilFn,
     Check |-> NilFn, Cleanup |-> NilFn]

\* FunctionMesa.Run, lines 290-320: the MethodMesa im built from m.
AdaptMesa(f) ==
    [Init        |-> checkAndSet(NilFn, ~IsNil(f.Init), Closure(f.Init)),
     NewInstance |-> [tag |-> "nilinst"],
     Target      |-> checkAndSet(NilFn, ~IsNil(f.Target), Closure(f.Target)),
     BeforeCall  |-> checkAndSet(NilFn, ~IsNil(f.BeforeCall), Closure(f.BeforeCall)),
     Check       |-> checkAndSet(NilFn, ~IsNil(f.Check), Closure(f.Check)),
     Cleanup     |-> checkAndSet(NilFn, ~IsNil(f.Cleanup), Closure(f.Cleanup)),
     Teardown    |-> checkAndSet(NilFn, ~IsNil(f.Teardown), Closure(f.Teardown))]

\* The InputFn field of im.Cases[i], lines 328-330: a closure around
\* c.InputFn, whether or not c.InputFn is nil.
AdaptInputFn(f) == Closure(f)

\* FunctionMesa.Run, lines 322-344: im.Cases[i] built from m.Cases[i].
AdaptCase(fc) ==
    [Skip       |-> fc.Skip,
     Fields     |-> Zero,
     FieldsFn   |-> NilFn,
     Input      |-> fc.Input,
     InputFn    |-> AdaptInputFn(fc.InputFn),
     BeforeCall |-> checkAndSet(NilFn, ~IsNil(fc.BeforeCall), Closure(fc.BeforeCall)),
     Check      |-> checkAndSet(NilFn, ~IsNil(fc.Check), Closure(fc.Check)),
     Cleanup    |-> checkAndSet(NilFn, ~IsNil(fc.Cleanup), Closure(fc.Cleanup))]

\* A resolution that prefers the harness-level hook.
Resolve_MesaFirst(caseFn, mesaFn) ==
    IF ~IsNil(mesaFn) THEN "m"
    ELSE IF ~IsNil(caseFn) THEN "tt"
    ELSE "none"

\* The switch of lines 204-209, 213-218, 222-227: which hook runs.
Resolve(caseFn, mesaFn) ==
    IF ~IsNil(caseFn) THEN "tt"
    ELSE IF ~IsNil(mesaFn) THEN "m"
    ELSE "none"

----------------------------------------------------------------------------
(* The worlds a Run call is checked in: the tables the caller may build    *)
(* and what the user callbacks may do.                                     *)

Kinds == {"method", "function", "benchmark"}

Callbacks == {"Init", "FieldsFn", "NewInstance", "InputFn", "BeforeCall",
              "Target", "Check", "Cleanup", "Teardown"}

\* Every combination of optional fields and callback behaviours, with one
\* value for every literal and provider.
ControlEnv ==
    [kinds      |-> Kinds,
     opt        |-> BOOLEAN,
     provider   |-> BOOLEAN,
     skip       |-> BOOLEAN,
     beh        |-> [cb \in Callbacks |-> Behaviours],
     Fields     |-> {<<0>>},
     FieldsRet  |-> {<<1>>},
     Input      |-> {<<1>>},
     InputRet   |-> {<<2>>},
     FnInput    |-> {<<1, 2>>, <<0, 0>>},
     FnInputRet |-> {<<2, 2>>},
     benchtime  |-> {MaxN},
     reports    |-> {<< >>},
     access     |-> {"none"},
     store      |-> {<< >>},
     cast       |-> {<< >>},
     batchStore |-> {<< >>},
     pre        |-> {<< >>},
     post       |-> {<< >>},
     history    |-> FALSE,
     example    |-> "MyStruct"]

NoBench == [benchN |-> 0, N |-> 0, i |-> 0, timerOn |-> FALSE,
            reported |-> << >>, samples |-> << >>, reset |-> FALSE,
            late |-> << >>]

NoSub == [failed |-> FALSE, skipped |-> FALSE, panicking |-> FALSE,
          abort |-> "", registered |-> 0, cleaned |-> 0, parallel |-> FALSE]

NoArgs == [fields |-> Zero, ifnInst |-> NoInst, bcIn |-> Zero, tgIn |-> Zero,
           ckIn |-> Zero, ckOut |-> Zero, ckInst |-> NoInst, clInst |-> NoInst,
           access |-> "none", sets |-> << >>, cast |-> NoCast,
           outOf |-> 0, ckOutOf |-> 0, bcSet |-> << >>, ckSet |-> << >>,
           ckSeen |-> << >>, clSeen |-> << >>]

NoBatch == [nInit |-> 0, nTeardown |-> 0, deferred |-> FALSE, failed |-> FALSE,
            last |-> newCtx, paused |-> << >>, returned |-> FALSE,
            initSet |-> << >>, tdSeen |-> << >>]

\* The state when the test driver calls Run on the harness the caller built.
InitIn(E) ==
    /\ env = E
    /\ kind \in E.kinds
    /\ \E init \in E.opt, bc \in E.opt, ck \in E.opt, cl \in E.opt, td \in E.opt :
          IF kind = "function"
          THEN fm = FunctionMesa(init, bc, ck, cl, td) /\ m = ZeroMesa
          ELSE fm = ZeroFunctionMesa /\ m = MethodMesa(init, bc, ck, cl, td)
    /\ nCases \in 0..MaxCases
    /\ pc = IF kind = "function" THEN "FunctionMesa.Run" ELSE "Run"
    /\ idx = 0
    /\ c = ZeroFunctionCase
    /\ elem = ZeroCase
    /\ tt = ZeroCase
    /\ inst = NoInst
    /\ out = Zero
    /\ ctx = newCtx
    /\ bctx = newCtx
    /\ cleanups = << >>
    /\ sub = NoSub
    /\ calls = << >>
    /\ args = NoArgs
    /\ outcome = << >>
    /\ batch = NoBatch
    /\ \E n \in E.benchtime :
          b = IF kind = "benchmark" THEN [NoBench EXCEPT !.benchN = n] ELSE NoBench

Init == InitIn(ControlEnv)

\* No callback fails, every optional field is absent, every provider is
\* present (so that a function case has an InputFn), and Target reports a
\* metric value under the name "ops" on every invocation; the host may
\* ask for any iteration count up to MaxN.
Quiet == [cb \in Callbacks |-> {"ok"}]

MetricEnv ==
    [ControlEnv EXCEPT !.opt = {FALSE}, !.provider = {TRUE}, !.skip = {FALSE},
                       !.beh = Quiet,
                       !.benchtime = 1..MaxN,
                       !.reports = {<< <<Float(1), "ops">> >>,
                                    << <<Float(7), "ops">> >>}]

InitMetric == InitIn(MetricEnv)

\* The only thing that goes wrong is a fatal assertion (ctx.Re) inside
\* BeforeCall, Target or Check.
FatalEnv ==
    [ControlEnv EXCEPT !.provider = {TRUE}, !.skip = {FALSE},
                       !.beh = [cb \in Callbacks |->
                                  IF cb \in {"BeforeCall", "Target", "Check"}
                                  THEN {"ok", "fatal"} ELSE {"ok"}]]

InitFatal == InitIn(FatalEnv)

\* The only thing that goes wrong is a non-fatal assertion (ctx.As)
\* inside BeforeCall or Check.
NonFatalEnv ==
    [ControlEnv EXCEPT !.provider = {TRUE}, !.skip = {FALSE},
                       !.beh = [cb \in Callbacks |->
                                  IF cb \in {"BeforeCall", "Check"}
                                  THEN {"ok", "nonfatal"} ELSE {"ok"}]]

InitNonFatal == InitIn(NonFatalEnv)

\* No callback asserts anything itself, but Target may ask its Ctx for
\* the test handle (T), the benchmark handle (B), or report a metric.
ModeEnv ==
    [ControlEnv EXCEPT !.provider = {TRUE}, !.skip = {FALSE}, !.beh = Quiet,
                       !.access = {"none", "T", "B"},
                       !.reports = {<< >>, << <<Float(1), "ops">> >>}]

InitMode == InitIn(ModeEnv)

\* No callback fails, every case has its providers; the report of every
\* case remembers which hook kinds the case overrode.
FrameEnv ==
    [ControlEnv EXCEPT !.provider = {TRUE}, !.skip = {FALSE}, !.beh = Quiet,
                       !.history = TRUE]

InitFrame == InitIn(FrameEnv)

\* The buffer scenario: limit 10, the message {Name: "x", Value: 1} given
\* literally, no callback fails; a case with a BeforeCall of its own is
\* case B, whose pre-call adds ten messages.
BufferEnv ==
    [ControlEnv EXCEPT !.provider = {FALSE}, !.skip = {FALSE}, !.beh = Quiet,
                       !.Fields = {<<10>>}, !.Input = {<<"x", 1>>},
                       !.example = "Buffer"]

InitBuffer == InitIn(BufferEnv)

\* The names and the values the hooks store in the Ctx.
Names == {"a", "b"}

StoreValues == {<<1>>, <<2>>}

\* No callback fails; BeforeCall, Check and Cleanup may each store one
\* value in the Ctx of the sub-run, and Target may report a metric.
StoreEnv ==
    [ControlEnv EXCEPT !.provider = {FALSE}, !.skip = {FALSE}, !.beh = Quiet,
                       !.store = {<< >>} \cup
                                 {<<n, v>> : n \in Names, v \in StoreValues},
                       !.reports = {<< >>, << <<Float(1), "ops">> >>}]

InitStore == InitIn(StoreEnv)

\* No callback fails by itself; BeforeCall may start with a MustAssert
\* of any value to any of the types and go on to store a value.
CastEnv ==
    [ControlEnv EXCEPT !.provider = {FALSE}, !.skip = {FALSE}, !.beh = Quiet,
                       !.cast = {<< >>} \cup
                                {<<T, in>> : T \in CastTypes, in \in DynValues},
                       !.store = {<< >>, <<"a", <<1>>>>}]

InitCast == InitIn(CastEnv)

\* No callback fails, no case is skipped; BeforeCall, Target and Check
\* may each report a metric.
TimerEnv ==
    [ControlEnv EXCEPT !.provider = {FALSE}, !.skip = {FALSE}, !.beh = Quiet,
                       !.pre = {<< >>, << <<Float(2), "ops">> >>},
                       !.reports = {<< >>, << <<Float(1), "ops">> >>},
                       !.post = {<< >>, << <<Float(4), "ops">> >>}]

InitTimer == InitIn(TimerEnv)

\* Every hook is present, no callback fails, no case is skipped;
\* BeforeCall, Check and Cleanup may each store a value under the name
\* "a", Target may report a metric,
\* and the Ctx every sub-run leaves behind is remembered.
OwnEnv ==
    [ControlEnv EXCEPT !.opt = {TRUE}, !.provider = {FALSE}, !.skip = {FALSE},
                       !.beh = Quiet,
                       !.store = {<< >>, <<"a", <<1>>>>, <<"a", <<2>>>>},
                       !.reports = {<< >>, << <<Float(1), "ops">> >>},
                       !.history = TRUE]

InitOwn == InitIn(OwnEnv)

\* Every callback returns or aborts with a fatal assertion; a case may
\* be skipped and may lack any hook or provider.
LiveEnv ==
    [ControlEnv EXCEPT !.beh = [cb \in Callbacks |-> {"ok", "fatal"}],
                       !.FnInput = {<<1, 2>>}]

InitLive == InitIn(LiveEnv)

\* Every hook is present, no callback fails, no case is skipped; Init
\* may store a value under "a", the hooks of a case may store one under "a" or "b", and the Ctx
\* every sub-run leaves behind is remembered.
BatchEnv ==
    [ControlEnv EXCEPT !.opt = {TRUE}, !.provider = {FALSE}, !.skip = {FALSE},
                       !.beh = Quiet,
                       !.batchStore = {<< >>, <<"a", <<1>>>>},
                       !.store = {<< >>, <<"a", <<2>>>>, <<"b", <<2>>>>},
                       !.history = TRUE]

InitBatch == InitIn(BatchEnv)

\* No callback fails, no case is skipped; BeforeCall, Target and Check
\* may each report a metric, under a shared name or one of their own.
MeterEnv ==
    [ControlEnv EXCEPT !.provider = {FALSE}, !.skip = {FALSE}, !.beh = Quiet,
                       !.pre = {<< >>, << <<Float(2), "ops">> >>,
                                << <<Float(2), "pre">> >>},
                       !.reports = {<< >>, << <<Float(1), "ops">> >>},
                       !.post = {<< >>, << <<Float(4), "ops">> >>,
                                 << <<Float(4), "post">> >>}]

InitMeter == InitIn(MeterEnv)

\* No callback fails, no case is skipped; the Target of a case may call
\* ctx.T().Parallel().
ParallelEnv ==
    [ControlEnv EXCEPT !.provider = {FALSE}, !.skip = {FALSE},
                       !.beh = Quiet, !.access = {"none", "Parallel"}]

InitParallel == InitIn(ParallelEnv)

----------------------------------------------------------------------------
(* Steps of Run.                                                           *)

\* The host state of the sub-run after callback who behaved as beh:
\* ctx.As and ctx.Re mark the sub-run failed, ctx.Re also ends it.
Failed(beh, who) ==
    [sub EXCEPT !.failed = @ \/ beh # "ok",
                !.abort = IF beh = "fatal" THEN who ELSE @]

\* A nil func value was called inside who: the host fails the sub-run,
\* runs its cleanups and re-panics, which ends the process.
Panicked(who) == [sub EXCEPT !.failed = TRUE, !.panicking = TRUE, !.abort = who]

\* A facade whose non-fatal assertions end the sub-run as well.
After_Any(beh, next) == IF beh # "ok" THEN "cleanup" ELSE next

\* Where control goes after a callback: FailNow ends the sub-run function
\* (runtime.Goexit), and the host runs the registered cleanups.
After(beh, next) == IF beh = "fatal" THEN "cleanup" ELSE next

\* A host whose sub-runs inherit the failure of the sub-run before.
FreshSub_KeepFailed(s) == [NoSub EXCEPT !.failed = s.failed]

\* The host state of the sub-run the next t.Run starts, given the state s
\* of the sub-run that ended: every sub-run has a testing.T of its own.
FreshSub(s) == NoSub

\* FunctionMesa.Run, lines 289-347: build im, then im.Run(t).
FunctionMesaRun ==
    /\ pc = "FunctionMesa.Run"
    /\ m' = AdaptMesa(fm)
    /\ pc' = "Run"
    /\ UNCHANGED <<kind, fm, nCases, idx, c, elem, tt, inst, out, ctx, bctx,
                   cleanups, sub, calls, args, outcome, batch, b, env>>

\* A Run that forgets Teardown.
DeferTeardown_Never(mesa) == FALSE

\* Whether Run defers Teardown once Init has returned (lines 180-182).
DeferTeardown(mesa) == ~IsNil(mesa.Teardown)

\* Run, lines 174-182 (419-427): the batch Ctx, Init, defer Teardown.
\* A FailNow inside Init ends the goroutine of Run before the defer.
\* Init may store a value in the Ctx it is handed.
RunInit ==
    /\ pc = "Run"
    /\ IF IsNil(m.Init)
       THEN /\ batch' = [batch EXCEPT !.deferred = DeferTeardown(m)]
            /\ bctx' = newCtx
            /\ pc' = "range"
       ELSE \E beh \in env.beh["Init"], st \in env.batchStore :
            /\ batch' = [batch EXCEPT !.nInit = @ + 1,
                                      !.failed = beh # "ok",
                                      !.deferred = beh # "fatal" /\ DeferTeardown(m),
                                      !.initSet = st]
            /\ bctx' = Stored(newCtx, st)
            /\ pc' = IF beh = "fatal" THEN "exit" ELSE "range"
    /\ UNCHANGED <<kind, fm, m, nCases, idx, c, elem, tt, inst, out, ctx,
                   cleanups, sub, calls, args, outcome, b, env>>

\* The first execution of a sub-run: N = 1 for a benchmark (run1).
FirstRun == IF kind = "benchmark" THEN [b EXCEPT !.N = 1] ELSE b

\* A loop that visits every other element.
NextIndex_Skip(i) == i + 2

\* The range loop of line 184 (431) visits the elements in slice order.
NextIndex(i) == i + 1

\* Run, lines 184-185 (431-432): the next element of m.Cases is copied
\* into the range variable and t.Run starts its sub-run; after the last
\* element Run returns.  The elements of the slice are revealed as the
\* loop reads them.
RangeCases ==
    /\ pc = "range"
    /\ IF idx < nCases
       THEN /\ idx' = NextIndex(idx)
            /\ IF kind = "function"
               THEN \E sk \in env.skip, in \in env.FnInput, p \in env.provider,
                       r \in env.FnInputRet, bc \in env.opt, ck \in env.opt,
                       cl \in env.opt :
                    /\ c' = [Skip |-> sk, Input |-> in,
                             InputFn |-> Opt(p, UserFn(r)),
                             BeforeCall |-> Opt(bc, Hook), Check |-> Opt(ck, Hook),
                             Cleanup |-> Opt(cl, Hook)]
                    /\ elem' = AdaptCase(c')
               ELSE \E sk \in env.skip, f \in env.Fields, pf \in env.provider,
                       rf \in env.FieldsRet, in \in env.Input, p \in env.provider,
                       r \in env.InputRet, bc \in env.opt, ck \in env.opt,
                       cl \in env.opt :
                    /\ c' = c
                    /\ elem' = [Skip |-> sk, Fields |-> f,
                                FieldsFn |-> Opt(pf, UserFn(rf)), Input |-> in,
                                InputFn |-> Opt(p, UserFn(r)),
                                BeforeCall |-> Opt(bc, Hook),
                                Check |-> Opt(ck, Hook), Cleanup |-> Opt(cl, Hook)]
            /\ tt' = elem'
            /\ b' = FirstRun
            /\ pc' = "t.Run"
       ELSE /\ pc' = "return"
            /\ UNCHANGED <<idx, c, elem, tt, b>>
    /\ UNCHANGED <<kind, fm, m, nCases, inst, out, ctx, bctx, cleanups, sub,
                   calls, args, outcome, batch, env>>

\* A harness that never skips.
Skipped_Never(case) == FALSE

\* Whether the sub-run is skipped (line 186 / 433).
Skipped(case) == case.Skip

\* A sub-run that goes on with the Ctx of the sub-run before.
CaseCtx_Previous(last, outer) == last

\* A sub-run without a Ctx of its own, whose closure captures the ctx
\* of Run.
CaseCtx_Outer(last, outer) == outer

\* ctx := newCtx(t) of line 190 (437): a new Ctx with empty maps, which
\* shadows the ctx of Run (outer); the Ctx of the sub-run before (last)
\* is not referenced any more.
CaseCtx(last, outer) == newCtx

\* The host starts a sub-run or, once the function that called Run has
\* returned, lets a sub-run that paused in t.Parallel() go on.
\* Sub-run, lines 186-190 (433-437): t.Skip ends the sub-run function;
\* otherwise the sub-run gets its own Ctx.  The host starts the timer of
\* a benchmark before it calls the sub-run function.
SubRun ==
    /\ pc = "t.Run"
    /\ IF batch.returned
       THEN LET p == Head(batch.paused) IN
            /\ idx' = p.idx /\ c' = p.c /\ elem' = p.elem /\ tt' = p.tt
            /\ inst' = p.inst /\ out' = p.out /\ ctx' = p.ctx
            /\ cleanups' = p.cleanups /\ sub' = p.sub /\ calls' = p.calls
            /\ args' = p.args
            /\ batch' = [batch EXCEPT !.paused = Tail(@)]
            /\ pc' = "Target"
            /\ b' = b
       ELSE /\ IF Skipped(tt)
               THEN /\ sub' = [sub EXCEPT !.skipped = TRUE]
                    /\ pc' = "cleanup"
                    /\ ctx' = ctx
               ELSE /\ ctx' = CaseCtx(batch.last, bctx)
                    /\ pc' = "FieldsFn"
                    /\ sub' = sub
            /\ b' = IF kind = "benchmark"
                    THEN [b EXCEPT !.timerOn = TRUE, !.i = 0, !.reported = << >>,
                                   !.samples = << >>, !.reset = FALSE,
                                   !.late = << >>]
                    ELSE b
            /\ UNCHANGED <<idx, c, elem, tt, inst, out, cleanups, calls, args,
                           batch>>
    /\ UNCHANGED <<kind, fm, m, nCases, bctx, outcome, env>>

\* Lines 192-194 (439-441): the Fields of the case once FieldsFn, if any,
\* has returned.
ResolveFields(case) ==
    IF ~IsNil(case.FieldsFn) THEN RetOf(case.FieldsFn) ELSE case.Fields

\* An Input that ignores the provider.
ResolveInput_Literal(case) == case.Input

\* Lines 198-200 (445-447): the Input of the case once InputFn, if any,
\* has returned.
ResolveInput(case) ==
    IF ~IsNil(case.InputFn) THEN RetOf(case.InputFn) ELSE case.Input

\* A loop that ranges over pointers into the slice.
WriteBack_Alias(e, t) == t

\* The slice element e once the sub-run has assigned to the range
\* variable, now t: tt (bb) is a copy, m.Cases[i] keeps its value.
WriteBack(e, t) == e

\* Sub-run, lines 192-194 (439-441).
FieldsFn ==
    /\ pc = "FieldsFn"
    /\ IF IsNil(tt.FieldsFn)
       THEN /\ pc' = "NewInstance"
            /\ UNCHANGED <<tt, sub, calls>>
       ELSE \E beh \in env.beh["FieldsFn"] :
            /\ calls' = Append(calls, "FieldsFn")
            /\ sub' = Failed(beh, "FieldsFn")
            /\ tt' = IF beh = "fatal" THEN tt
                     ELSE [tt EXCEPT !.Fields = ResolveFields(tt)]
            /\ pc' = After(beh, "NewInstance")
    /\ elem' = WriteBack(elem, tt')
    /\ UNCHANGED <<kind, fm, m, nCases, idx, c, inst, out, ctx, bctx,
                   cleanups, args, outcome, batch, b, env>>

\* Sub-run, line 196 (443).  The NewInstance of FunctionMesa.Run returns
\* nil and asserts nothing.
NewInstance ==
    /\ pc = "NewInstance"
    /\ calls' = Append(calls, "NewInstance")
    /\ args' = [args EXCEPT !.fields = tt.Fields]
    /\ IF m.NewInstance.tag = "nilinst"
       THEN /\ inst' = NilInst
            /\ sub' = sub
            /\ pc' = "InputFn"
       ELSE \E beh \in env.beh["NewInstance"] :
            /\ sub' = Failed(beh, "NewInstance")
            /\ inst' = IF beh = "fatal" THEN inst
                       ELSE IF env.example = "Buffer" THEN NewBuffer(idx, tt.Fields)
                       ELSE NewMyStruct(idx, tt.Fields)
            /\ pc' = After(beh, "InputFn")
    /\ UNCHANGED <<kind, fm, m, nCases, idx, c, elem, tt, out, ctx, bctx,
                   cleanups, outcome, batch, b, env>>

\* Sub-run, lines 198-200 (445-447).  Calling the closure of lines
\* 328-330 around a nil c.InputFn panics.
InputFn ==
    /\ pc = "InputFn"
    /\ IF IsNil(tt.InputFn)
       THEN /\ pc' = "t.Cleanup"
            /\ UNCHANGED <<tt, sub, calls, args>>
       ELSE /\ calls' = Append(calls, "InputFn")
            /\ args' = [args EXCEPT !.ifnInst = inst]
            /\ IF CallOf(tt.InputFn) = "panic"
               THEN /\ sub' = Panicked("InputFn")
                    /\ pc' = "cleanup"
                    /\ tt' = tt
               ELSE \E beh \in env.beh["InputFn"] :
                    /\ sub' = Failed(beh, "InputFn")
                    /\ tt' = IF beh = "fatal" THEN tt
                             ELSE [tt EXCEPT !.Input = ResolveInput(tt)]
                    /\ pc' = After(beh, "t.Cleanup")
    /\ elem' = WriteBack(elem, tt')
    /\ UNCHANGED <<kind, fm, m, nCases, idx, c, inst, out, ctx, bctx,
                   cleanups, outcome, batch, b, env>>

\* Lines 202-209 (449-456): the cleanup closure of the sub-run.
ResolveCleanup(case, mesa) == Resolve(case.Cleanup, mesa.Cleanup)

\* Lines 213-218 (460-465): the BeforeCall hook of the sub-run.
ResolveBeforeCall(case, mesa) == Resolve(case.BeforeCall, mesa.BeforeCall)

\* Lines 222-227 (484-489): the Check hook of the sub-run.
ResolveCheck(case, mesa) == Resolve(case.Check, mesa.Check)

\* A sub-run that registers nothing.
Register_Skip(regs, cl) == regs

\* A sub-run that registers its cleanup twice.
Register_Twice(regs, cl) == Append(Append(regs, cl), cl)

\* The callbacks t.Cleanup holds after line 211 (458) registered cl.
Register(regs, cl) == Append(regs, cl)

\* Sub-run, lines 202-211 (449-458): resolve the cleanup and register it.
RegisterCleanup ==
    /\ pc = "t.Cleanup"
    /\ cleanups' = Register(cleanups, ResolveCleanup(tt, m))
    /\ sub' = [sub EXCEPT !.registered = Len(cleanups')]
    /\ pc' = "BeforeCall"
    /\ UNCHANGED <<kind, fm, m, nCases, idx, c, elem, tt, inst, out, ctx, bctx,
                   calls, args, outcome, batch, b, env>>

\* A Ctx that hands out whatever it is asked for.
ModeOk_Any(call) == TRUE

\* The type assertions of Ctx.T (line 59) and Ctx.B (line 67, also the
\* first statement of ReportMetric, line 75) on the handle the Ctx of
\* this Run was created with: whether ok is true.
ModeOk(call) ==
    \/ call = "none"
    \/ call = "T" /\ kind # "benchmark"
    \/ call \in {"B", "ReportMetric"} /\ kind = "benchmark"

\* What a callback that behaves as beh does when it also makes the call:
\* c.Re.True(ok, ...) of lines 60 and 68 is a fatal assertion.
Calling(beh, call) == IF ModeOk(call) THEN beh ELSE "fatal"

\* A hook that is handed a copy of the instance.
PreCallInst_Copy(s, r) == s

\* The instance after the BeforeCall hook r ("tt" or "m") was handed it:
\* the hooks of the MyStruct example leave it alone, the case-level
\* pre-call of the buffer scenario fills the buffer it was handed.
PreCallInst(s, r) ==
    IF env.example = "Buffer" /\ kind # "function" /\ r = "tt"
    THEN BufferFill(s, PreCallMessages)
    ELSE s

\* b.ResetTimer(), line 469 of the benchmark sub-run: the time measured
\* so far is dropped; whether the timer runs does not change.
ResetTimer(bs) == IF kind = "benchmark" THEN [bs EXCEPT !.reset = TRUE] ELSE bs

\* Sub-run, lines 213-218 (460-469); a benchmark then resets the timer.
\* The hook may end with a ReportMetric (samples: what the Ctx has been
\* given before the loop ends).
\* The hook may start with a MustAssert, which ends the sub-run when the
\* type is wrong, and go on to store a value in the Ctx.
BeforeCall ==
    /\ pc = "BeforeCall"
    /\ LET r == ResolveBeforeCall(tt, m) IN
       IF r = "none"
       THEN /\ pc' = "Target"
            /\ b' = ResetTimer(b)
            /\ UNCHANGED <<sub, calls, args, inst, ctx>>
       ELSE \E beh \in env.beh["BeforeCall"], ca \in env.cast, st \in env.store,
               rep \in env.pre :
            LET cast == Casting(beh, ca)
                then == IF Cast(ca).called /\ ~Cast(ca).ok THEN << >> ELSE st
                call == IF rep # << >> /\ cast = beh THEN "ReportMetric" ELSE "none"
                eff  == Calling(cast, call)
                adds == call = "ReportMetric" /\ ModeOk(call)
            IN
            /\ calls' = Append(calls, IF r = "tt" THEN "tt.BeforeCall" ELSE "m.BeforeCall")
            /\ args' = [args EXCEPT !.bcIn = tt.Input, !.cast = Cast(ca),
                                    !.sets = Logged(@, then), !.bcSet = then]
            /\ inst' = PreCallInst(inst, r)
            /\ ctx' = IF adds THEN ReportMetric(Stored(ctx, then), rep)
                      ELSE Stored(ctx, then)
            /\ sub' = Failed(eff, "BeforeCall")
            /\ b' = LET called == IF adds THEN [b EXCEPT !.timerOn = TRUE,
                                                         !.samples = @ \o rep]
                                  ELSE b
                    IN  IF eff = "fatal" THEN called ELSE ResetTimer(called)
            /\ pc' = After(eff, "Target")
    /\ UNCHANGED <<kind, fm, m, nCases, idx, c, elem, tt, out, bctx,
                   cleanups, outcome, batch, env>>

\* The Target of the examples: Add(in.a, in.b) for the function harness,
\* inst.Add(n) returning nil for the method harnesses.
TargetOut(in) == IF kind = "function" THEN <<Add(in[1], in[2])>> ELSE Zero

TargetInst(s, in) == IF kind = "function" THEN s ELSE MyStructAdd(s, in[1])

\* What the user's Target does with the instance s and the input in: the
\* instance afterwards and the output.
UserTarget(s, in) ==
    IF env.example = "Buffer" /\ kind # "function"
    THEN BufferAdd(s, in)
    ELSE [inst |-> TargetInst(s, in), out |-> TargetOut(in)]

\* A loop that stops one iteration short.
AfterTarget_OneShort(i) ==
    IF kind = "benchmark" THEN (IF i + 1 < b.N THEN "Target" ELSE "StopTimer")
    ELSE "Check"

\* A sub-run that returns right after Target.
AfterTarget_NoCheck(i) ==
    IF kind = "benchmark" THEN (IF i < b.N THEN "Target" ELSE "StopTimer")
    ELSE "cleanup"

\* Where control goes after the i-th Target call returned: line 222 for
\* a test, the loop of lines 471-474 for a benchmark.
AfterTarget(i) ==
    IF kind = "benchmark" THEN (IF i < b.N THEN "Target" ELSE "StopTimer")
    ELSE "Check"

\* Whether the Target of a test calls ctx.T().Parallel() first and the
\* sub-run has not been marked parallel yet: the host then pauses the
\* sub-run inside the call and t.Run returns to the range loop.
Pauses(acc, rep) ==
    acc = "Parallel" /\ rep = << >> /\ kind # "benchmark" /\ ~sub.parallel

\* Sub-run, line 220, or one iteration of the loop of lines 471-474;
\* out is assigned the output of this call (outOf: of which call).
\* Target may call ctx.T(), ctx.B() or ctx.ReportMetric; ReportMetric
\* gets past its call of B() only on a benchmark Ctx, adds to the total
\* and leaves the timer started (lines 75-79).
Target ==
    /\ pc = "Target"
    /\ \E beh \in env.beh["Target"], rep \in env.reports, acc \in env.access :
       IF Pauses(acc, rep)
       THEN /\ batch' = [batch EXCEPT !.paused = Append(@,
                            [idx |-> idx, c |-> c, elem |-> elem, tt |-> tt,
                             inst |-> inst, out |-> out, ctx |-> ctx,
                             cleanups |-> cleanups,
                             sub |-> [sub EXCEPT !.parallel = TRUE],
                             calls |-> calls, args |-> args])]
            /\ pc' = "range"
            /\ c' = ZeroFunctionCase /\ elem' = ZeroCase /\ tt' = ZeroCase
            /\ inst' = NoInst /\ out' = Zero /\ ctx' = newCtx
            /\ cleanups' = << >> /\ sub' = NoSub /\ calls' = << >>
            /\ args' = NoArgs
            /\ UNCHANGED <<idx, b, outcome>>
       ELSE
       LET call == IF rep # << >> THEN "ReportMetric"
                   ELSE IF acc = "Parallel" THEN "T" ELSE acc
           eff  == Calling(beh, call)
           adds == call = "ReportMetric" /\ ModeOk(call)
       IN
       /\ UNCHANGED <<idx, c, elem, tt, cleanups, outcome, batch>>
       /\ calls' = Append(calls, "Target")
       /\ args' = [args EXCEPT !.tgIn = tt.Input, !.access = call,
                               !.outOf = IF eff = "fatal" THEN @ ELSE b.i + 1]
       /\ inst' = UserTarget(inst, tt.Input).inst
       /\ sub' = Failed(eff, "Target")
       /\ out' = IF eff = "fatal" THEN out ELSE UserTarget(inst, tt.Input).out
       /\ ctx' = IF adds THEN ReportMetric(ctx, rep) ELSE ctx
       /\ b' = IF kind = "benchmark"
               THEN [b EXCEPT !.i = @ + 1,
                              !.samples = @ \o rep,
                              !.timerOn = @ \/ adds]
               ELSE IF adds THEN [b EXCEPT !.timerOn = TRUE] ELSE b
       /\ pc' = After(eff, AfterTarget(b.i + 1))
    /\ UNCHANGED <<kind, fm, m, nCases, bctx, env>>

\* A harness that reports one of the names only.
Averages_OneName(cx, n) ==
    [name \in (IF DOMAIN cx.metrics = {} THEN {}
               ELSE {CHOOSE x \in DOMAIN cx.metrics : TRUE}) |->
        FDiv(cx.metrics[name], n)]

\* A harness that reports the totals undivided.
Averages_Total(cx, n) == cx.metrics

\* Lines 480-482: what b.ReportMetric is given for every name of the Ctx.
Averages(cx, n) == [name \in DOMAIN cx.metrics |-> FDiv(cx.metrics[name], n)]

\* Benchmark sub-run, lines 476-482: stop the timer and report the
\* metrics of the Ctx to the host.
StopTimer ==
    /\ pc = "StopTimer"
    /\ b' = [b EXCEPT !.timerOn = FALSE, !.reported = Averages(ctx, b.N)]
    /\ pc' = "Check"
    /\ UNCHANGED <<kind, fm, m, nCases, idx, c, elem, tt, inst, out, ctx, bctx,
                   cleanups, sub, calls, args, outcome, batch, env>>

\* Sub-run, lines 222-227 (484-489); then the sub-run function returns.
\* The hook may store a value and end with a ReportMetric, whose deferred
\* b.StartTimer() (line 77) leaves the timer of the benchmark running
\* (late: what the Ctx has been given after the loop).
Check ==
    /\ pc = "Check"
    /\ LET r == ResolveCheck(tt, m) IN
       IF r = "none"
       THEN UNCHANGED <<sub, calls, args, ctx, b>>
       ELSE \E beh \in env.beh["Check"], st \in env.store, rep \in env.post :
            LET call == IF rep # << >> THEN "ReportMetric" ELSE "none"
                eff  == Calling(beh, call)
                adds == call = "ReportMetric" /\ ModeOk(call)
            IN
            /\ calls' = Append(calls, IF r = "tt" THEN "tt.Check" ELSE "m.Check")
            /\ args' = [args EXCEPT !.ckIn = tt.Input, !.ckOut = out,
                                    !.ckOutOf = args.outOf,
                                    !.ckInst = inst, !.sets = Logged(@, st),
                                    !.ckSet = st,
                                    !.ckSeen = Seen(ctx, env.store # {<< >>})]
            /\ ctx' = IF adds THEN ReportMetric(Stored(ctx, st), rep)
                      ELSE Stored(ctx, st)
            /\ sub' = Failed(eff, "Check")
            /\ b' = IF adds THEN [b EXCEPT !.timerOn = TRUE, !.late = @ \o rep]
                    ELSE b
    /\ pc' = "cleanup"
    /\ UNCHANGED <<kind, fm, m, nCases, idx, c, elem, tt, inst, out, bctx,
                   cleanups, outcome, batch, env>>

\* The host, when the sub-run function has ended (returned, Goexit or
\* panic): the callbacks registered with t.Cleanup run, last first.  A
\* failure inside a cleanup marks the sub-run failed.
RunCleanup ==
    /\ pc = "cleanup"
    /\ IF cleanups = << >>
       THEN /\ pc' = "report"
            /\ UNCHANGED <<cleanups, sub, calls, args, ctx>>
       ELSE LET cl == cleanups[Len(cleanups)] IN
            /\ cleanups' = SubSeq(cleanups, 1, Len(cleanups) - 1)
            /\ pc' = IF cleanups' = << >> THEN "report" ELSE "cleanup"
            /\ IF cl = "none"
               THEN /\ sub' = [sub EXCEPT !.cleaned = @ + 1]
                    /\ UNCHANGED <<calls, args, ctx>>
               ELSE \E beh \in env.beh["Cleanup"], st \in env.store :
                    /\ calls' = Append(calls, IF cl = "tt" THEN "tt.Cleanup" ELSE "m.Cleanup")
                    /\ args' = [args EXCEPT !.clInst = inst, !.sets = Logged(@, st),
                                            !.clSeen = Seen(ctx, env.store # {<< >>})]
                    /\ ctx' = Stored(ctx, st)
                    /\ sub' = [sub EXCEPT !.cleaned = @ + 1,
                                          !.failed = @ \/ beh # "ok"]
    /\ UNCHANGED <<kind, fm, m, nCases, idx, c, elem, tt, inst, out, bctx,
                   outcome, batch, b, env>>

\* The hook kinds a case can override.
HookKinds == {"BeforeCall", "Check", "Cleanup"}

\* The hook kinds of which the case-level hook ran, among the calls cs.
CaseLevel(cs) == {x \in HookKinds : \E k \in 1..Len(cs) : cs[k] = "tt." \o x}

\* The host's report of a sub-run.
Report(s) ==
    IF s.skipped THEN "skipped" ELSE IF s.failed THEN "failed" ELSE "passed"

\* Whether the host executes the sub-benchmark again (run1 passed and
\* -benchtime asks for more than one iteration).
RunsAgain ==
    kind = "benchmark" /\ b.N = 1 /\ b.benchN > 1 /\ ~sub.failed /\ ~sub.skipped

\* Where control is once a sub-run has been reported: back in the range
\* loop, or, for a sub-run the host let go on after Run returned, with
\* the host, which lets the next paused sub-run go on.
AfterSubRun ==
    IF ~batch.returned THEN "range"
    ELSE IF batch.paused # << >> THEN "t.Run" ELSE "done"

\* The host, when the cleanups have run: a benchmark that passed run1 is
\* executed again with N = benchN; a panic ends the process; otherwise
\* the sub-run is reported and t.Run returns to the range loop, where the
\* locals of the finished sub-run are dead (last: the Ctx it leaves
\* behind, kept in the worlds that remember history).
SubDone ==
    /\ pc = "report"
    /\ IF RunsAgain
       THEN /\ b' = [b EXCEPT !.N = b.benchN]
            /\ pc' = "t.Run"
            /\ UNCHANGED <<outcome, c, elem, tt>>
       ELSE /\ outcome' = Append(outcome, [case |-> idx, skip |-> elem.Skip,
                                            result |-> Report(sub),
                                            own |-> IF env.history
                                                    THEN CaseLevel(calls)
                                                    ELSE {}])
            /\ pc' = IF sub.panicking THEN "crashed" ELSE AfterSubRun
            /\ b' = [NoBench EXCEPT !.benchN = b.benchN]
            /\ c' = ZeroFunctionCase
            /\ elem' = ZeroCase
            /\ tt' = ZeroCase
    /\ sub' = FreshSub(sub)
    /\ calls' = << >>
    /\ args' = NoArgs
    /\ inst' = NoInst
    /\ out' = Zero
    /\ ctx' = newCtx
    /\ batch' = [batch EXCEPT !.last = IF env.history THEN ctx ELSE @]
    /\ UNCHANGED <<kind, fm, m, nCases, idx, bctx, cleanups, env>>

\* Run returns (line 230 / 494): the deferred Teardown runs.  When the
\* function that called Run has returned as well, the host lets the
\* sub-runs that paused in t.Parallel() go on.
Return ==
    /\ pc = "return"
    /\ IF batch.deferred
       THEN \E beh \in env.beh["Teardown"] :
            batch' = [batch EXCEPT !.nTeardown = @ + 1, !.failed = @ \/ beh # "ok",
                                   !.returned = TRUE,
                                   !.tdSeen = Seen(bctx, env.batchStore # {<< >>})]
       ELSE batch' = [batch EXCEPT !.returned = TRUE]
    /\ pc' = IF batch.paused # << >> THEN "t.Run" ELSE "done"
    /\ UNCHANGED <<kind, fm, m, nCases, idx, c, elem, tt, inst, out, ctx, bctx,
                   cleanups, sub, calls, args, outcome, b, env>>

Next ==
    \/ FunctionMesaRun
    \/ RunInit
    \/ RangeCases
    \/ SubRun
    \/ FieldsFn
    \/ NewInstance
    \/ InputFn
    \/ RegisterCleanup
    \/ BeforeCall
    \/ Target
    \/ StopTimer
    \/ Check
    \/ RunCleanup
    \/ SubDone
    \/ Return

Spec == Init /\ [][Next]_vars

SpecMetric == InitMetric /\ [][Next]_vars

SpecFatal == InitFatal /\ [][Next]_vars

SpecNonFatal == InitNonFatal /\ [][Next]_vars

SpecMode == InitMode /\ [][Next]_vars

SpecStore == InitStore /\ [][Next]_vars

SpecCast == InitCast /\ [][Next]_vars

SpecTimer == InitTimer /\ [][Next]_vars

SpecOwn == InitOwn /\ [][Next]_vars

\* Every callback that is called returns or aborts, and the host and the
\* harness go on with their next step whenever there is one.
SpecLive == InitLive /\ [][Next]_vars /\ WF_vars(Next)

SpecBatch == InitBatch /\ [][Next]_vars

SpecMeter == InitMeter /\ [][Next]_vars

SpecParallel == InitParallel /\ [][Next]_vars

SpecFrame == InitFrame /\ [][Next]_vars

SpecBuffer == InitBuffer /\ [][Next]_vars

----------------------------------------------------------------------------
(* Properties.                                                             *)

\* C1: for a case whose Skip is set, in every kind of harness, no user
\* callback (FieldsFn, NewInstance, InputFn, BeforeCall, Target, Check,
\* Cleanup, case-level or harness-level) is invoked and no cleanup is
\* registered, and the host reports the case as skipped, never as passed
\* or failed.
C1_SkipRunsNothing ==
    /\ elem.Skip =>
          /\ calls = << >>
          /\ cleanups = << >>
          /\ sub.registered = 0 /\ sub.cleaned = 0
          /\ ~sub.failed
          /\ pc \in {"t.Run", "cleanup", "report"}
          /\ pc = "report" => Report(sub) = "skipped"
    /\ \A k \in 1..Len(outcome) :
          outcome[k].skip <=> outcome[k].result = "skipped"

\* A skipped case of a harness that has every hook reaches its report.
C1_Witness ==
    /\ pc = "report" /\ elem.Skip
    /\ ~IsNil(elem.InputFn) /\ ~IsNil(elem.BeforeCall) /\ ~IsNil(elem.Check)
    /\ ~IsNil(elem.Cleanup) /\ ~IsNil(m.Cleanup) /\ ~IsNil(m.Check)

\* How often the callback named x was invoked in this execution.
Count(x) == Cardinality({k \in 1..Len(calls) : calls[k] = x})

\* The callbacks that run before the cleanup is resolved and registered.
Early == {"FieldsFn", "NewInstance", "InputFn"}

\* The sub-run ended, its function got as far as resolving its cleanup.
DoneRegistered == pc = "report" /\ ~elem.Skip /\ sub.abort \notin Early

\* C2: in every execution of a non-skipped sub-run that resolved its
\* cleanup, whether it ended normally or was aborted by a fatal assertion
\* inside BeforeCall, Target or Check, the resolved cleanup has been
\* registered once and has run exactly once when the sub-run is done; at
\* no time has a cleanup run twice.
C2_CleanupExactlyOnce ==
    /\ sub.registered <= 1
    /\ sub.cleaned <= sub.registered
    /\ Count("tt.Cleanup") + Count("m.Cleanup") <= 1
    /\ DoneRegistered =>
          /\ sub.registered = 1 /\ sub.cleaned = 1 /\ cleanups = << >>
          /\ (~IsNil(elem.Cleanup) \/ ~IsNil(m.Cleanup)) =>
                Count("tt.Cleanup") + Count("m.Cleanup") = 1

\* A case aborted by a fatal assertion inside Target whose case-level
\* cleanup has run.
C2_Witness ==
    /\ DoneRegistered /\ sub.abort = "Target"
    /\ sub.cleaned = 1 /\ Count("tt.Cleanup") = 1

\* Whether the step that runs the hook of kind x was reached.
Reached(x) ==
    /\ sub.abort \notin Early
    /\ x = "Check" => sub.abort \notin {"BeforeCall", "Target"}

\* C3: for each hook kind (BeforeCall, Check, Cleanup) of a non-skipped
\* case whose sub-run reached that hook's step: the case-level hook runs
\* exactly once iff the case supplies it, the harness-level hook runs
\* exactly once iff the case does not supply it and the harness does,
\* nothing runs when neither does; both never run; the choice for one
\* kind is a function of that kind's two fields only; and no absent hook
\* is called (hook resolution raises no panic).
C3_HookResolution ==
    /\ \A x \in {"BeforeCall", "Check", "Cleanup"} :
          /\ Count("tt." \o x) + Count("m." \o x) <= 1
          /\ (pc = "report" /\ ~elem.Skip) =>
                /\ Count("tt." \o x) =
                      IF Reached(x) /\ ~IsNil(elem[x]) THEN 1 ELSE 0
                /\ Count("m." \o x) =
                      IF Reached(x) /\ IsNil(elem[x]) /\ ~IsNil(m[x]) THEN 1 ELSE 0
    /\ sub.panicking => sub.abort = "InputFn"

\* One case resolves its three kinds three ways: the case-level
\* BeforeCall although the harness has one, the harness-level Check, and
\* no Cleanup.
C3_Witness ==
    /\ pc = "report" /\ sub.abort = ""
    /\ ~IsNil(elem.BeforeCall) /\ ~IsNil(m.BeforeCall) /\ Count("tt.BeforeCall") = 1
    /\ IsNil(elem.Check) /\ Count("m.Check") = 1
    /\ IsNil(elem.Cleanup) /\ IsNil(m.Cleanup) /\ sub.cleaned = 1

\* C4: NewInstance receives the value FieldsFn returned when the case has
\* a FieldsFn and the literal Fields otherwise; BeforeCall, Target and
\* Check receive the value InputFn returned when the case has an InputFn
\* and the literal Input otherwise; InputFn receives the instance that
\* NewInstance returned in the same sub-run.
C4_ProviderPrecedence ==
    /\ Count("NewInstance") > 0 =>
          args.fields = IF ~IsNil(elem.FieldsFn) THEN RetOf(elem.FieldsFn)
                        ELSE elem.Fields
    /\ \A x \in {"bcIn", "tgIn", "ckIn"} :
          LET called == IF x = "bcIn" THEN Count("tt.BeforeCall") + Count("m.BeforeCall")
                        ELSE IF x = "tgIn" THEN Count("Target")
                        ELSE Count("tt.Check") + Count("m.Check")
          IN  called > 0 =>
                args[x] = IF ~IsNil(elem.InputFn) THEN RetOf(elem.InputFn)
                          ELSE elem.Input
    /\ Count("InputFn") > 0 =>
          /\ Count("NewInstance") = 1
          /\ args.ifnInst = IF kind = "function" THEN NilInst
                             ELSE [id |-> idx, Value |-> args.fields[1]]

\* A method case with FieldsFn and a literal Input only: the instance was
\* built from the provider's value, the hooks saw the literal Input.
C4_Witness ==
    /\ pc = "report" /\ kind = "method"
    /\ ~IsNil(elem.FieldsFn) /\ args.fields = <<1>> /\ elem.Fields = <<0>>
    /\ IsNil(elem.InputFn) /\ args.bcIn = <<1>> /\ args.tgIn = <<1>>
    /\ args.ckIn = <<1>>
    /\ Count("tt.BeforeCall") = 1 /\ Count("tt.Check") = 1

\* The function-case fields the adapter translates.
CaseFns == {"InputFn", "BeforeCall", "Check", "Cleanup"}

\* C5: FunctionMesa.Run behaves as the hand-written method harness over a
\* nil instance: the translated case has Skip and Input of the function
\* case, a provider or hook is present in the translated case exactly when
\* it is present in the function case (and in the translated harness
\* exactly when present in the function harness), so the same user
\* callbacks are invoked (InputFn exactly when the function case has one)
\* and no sub-run panics.
C5_AdapterEquivalence ==
    kind = "function" =>
      /\ elem.Skip = c.Skip
      /\ elem.Input = c.Input
      /\ \A x \in CaseFns : IsNil(elem[x]) <=> IsNil(c[x])
      /\ pc # "FunctionMesa.Run" =>
            \A x \in DOMAIN fm : IsNil(m[x]) <=> IsNil(fm[x])
      /\ Count("InputFn") > 0 => ~IsNil(c.InputFn)
      /\ ~sub.panicking

\* A function case without InputFn whose sub-run panicked inside the
\* translated InputFn.
C5_Witness ==
    /\ kind = "function" /\ IsNil(c.InputFn) /\ ~c.Skip
    /\ sub.panicking /\ sub.abort = "InputFn" /\ Count("Target") = 0

\* No assertion of a user callback failed in this sub-run.
NoAssertionFailed == sub.failed => sub.panicking

\* C6: a function case with a literal Input only, none of whose callbacks
\* asserts a failure, has Target invoked once with that Input, its Check
\* (if any) sees Target's result (3 for {1, 2}, 0 for {0, 0}), and the
\* case is reported passed.
C6_LiteralInputAdder ==
    (/\ kind = "function" /\ pc = "report"
     /\ ~c.Skip /\ IsNil(c.InputFn) /\ NoAssertionFailed) =>
      /\ Count("Target") = 1
      /\ args.tgIn = c.Input
      /\ Count("tt.Check") + Count("m.Check") > 0 =>
            /\ c.Input = <<1, 2>> => args.ckOut = <<3>>
            /\ c.Input = <<0, 0>> => args.ckOut = <<0>>
      /\ Report(sub) = "passed"

\* The case Input = {1, 2} of TestAdd is reported failed without a call
\* of Target.
C6_Witness ==
    /\ kind = "function" /\ pc = "report" /\ IsNil(c.InputFn)
    /\ c.Input = <<1, 2>> /\ ~IsNil(c.Check)
    /\ Count("Target") = 0 /\ Report(sub) = "failed"

\* The metric values Target reported in this execution, in order.
Values == [k \in DOMAIN b.samples |-> b.samples[k][1]]

\* The host has been given the metrics of this execution.
MetricsReported ==
    kind = "benchmark" /\ pc \in {"Check", "cleanup", "report"} /\ sub.abort = ""

\* The whole number a float64 of the model's metric values stands for.
ValueOf(x) == IF x[2] >= 0 THEN x[1] * Pow2(x[2]) ELSE x[1] \div Pow2(-x[2])

\* The exact sum of the first k values.
RECURSIVE ExactSum(_, _)
ExactSum(vs, k) == IF k = 0 THEN 0 ELSE ExactSum(vs, k - 1) + ValueOf(vs[k])

\* float64 x is the number p / q.
IsExactly(x, p, q) ==
    IF x[2] >= 0 THEN x[1] * Pow2(x[2]) * q = p
    ELSE x[1] * q = p * Pow2(-x[2])

RECURSIVE Total(_, _)
Total(vs, k) == IF k = 0 THEN <<0, 0>> ELSE FAdd(Total(vs, k - 1), vs[k])

HookCount(x) == Count("tt." \o x) + Count("m." \o x)

\* Whether a hook of kind x is resolved for the case.
Resolved(x) == ~IsNil(elem[x]) \/ ~IsNil(m[x])

\* The sub-run function has ended.
Ended == pc \in {"cleanup", "report"}

\* C8: where the only failures are fatal assertions in BeforeCall, Target
\* or Check: after a fatal assertion in BeforeCall neither Target nor
\* Check is invoked, after one in Target (the k-th invocation of a
\* benchmark loop) no further Target and no Check, after one in Check the
\* sub-run function ends; the aborted case is reported failed and its
\* registered cleanup has run once; a sub-run is failed only by a fatal
\* assertion of its own callbacks, so a case that follows an aborted one
\* starts clean, runs its whole lifecycle and passes unless it aborts
\* itself; and Run reaches its return only when every case was reported.
C8_FatalAbortsOnlyCase ==
    /\ sub.abort \in {"", "BeforeCall", "Target", "Check"}
    /\ sub.abort # "" => Ended
    /\ sub.abort = "BeforeCall" => Count("Target") = 0 /\ HookCount("Check") = 0
    /\ sub.abort = "Target" =>
          /\ HookCount("Check") = 0
          /\ Count("Target") = IF kind = "benchmark" THEN b.i ELSE 1
    /\ (pc = "report" /\ sub.abort # "") =>
          /\ Report(sub) = "failed"
          /\ sub.cleaned = 1
          /\ HookCount("Cleanup") = IF Resolved("Cleanup") THEN 1 ELSE 0
    /\ sub.failed <=> sub.abort # ""
    /\ (pc = "report" /\ sub.abort = "") =>
          /\ Report(sub) = "passed"
          /\ Count("FieldsFn") = (IF kind = "function" THEN 0 ELSE 1)
          /\ Count("NewInstance") = 1 /\ Count("InputFn") = 1
          /\ HookCount("BeforeCall") = (IF Resolved("BeforeCall") THEN 1 ELSE 0)
          /\ Count("Target") = (IF kind = "benchmark" THEN b.N ELSE 1)
          /\ HookCount("Check") = (IF Resolved("Check") THEN 1 ELSE 0)
          /\ sub.cleaned = 1
    /\ pc \in {"range", "return", "done"} => Len(outcome) = idx
    /\ pc \in {"return", "done"} => idx = nCases
    /\ pc \notin {"range", "return", "done", "FunctionMesa.Run", "Run"} =>
          Len(outcome) = idx - 1

\* The first case was aborted and reported failed; the second case has
\* run its whole lifecycle, hooks and cleanup included, and passes.
C8_Witness ==
    /\ Len(outcome) = 1 /\ outcome[1].result = "failed"
    /\ pc = "report" /\ idx = 2 /\ Report(sub) = "passed"
    /\ HookCount("BeforeCall") = 1 /\ Count("Target") = 1
    /\ HookCount("Check") = 1 /\ HookCount("Cleanup") = 1

\* C9: where the only failures are non-fatal assertions (ctx.As) in
\* BeforeCall or Check: no sub-run is aborted; every non-skipped sub-run,
\* failed or not, invokes its resolved BeforeCall once, Target (once, N
\* times in a benchmark), its resolved Check once and its registered
\* cleanup once; and a sub-run in which an assertion failed is reported
\* failed.
C9_NonFatalContinues ==
    /\ sub.abort = ""
    /\ pc = "report" =>
          /\ HookCount("BeforeCall") = (IF Resolved("BeforeCall") THEN 1 ELSE 0)
          /\ Count("Target") = (IF kind = "benchmark" THEN b.N ELSE 1)
          /\ HookCount("Check") = (IF Resolved("Check") THEN 1 ELSE 0)
          /\ sub.cleaned = 1
          /\ HookCount("Cleanup") = (IF Resolved("Cleanup") THEN 1 ELSE 0)
          /\ sub.failed => Report(sub) = "failed"
    /\ sub.failed => HookCount("BeforeCall") + HookCount("Check") > 0
    /\ \A k \in 1..Len(outcome) : outcome[k].result \in {"passed", "failed"}

\* A case whose only hook that can fail is BeforeCall: it failed, and
\* Target, Check's place and the cleanup were still reached.
C9_Witness ==
    /\ pc = "report" /\ sub.failed /\ kind = "method"
    /\ HookCount("BeforeCall") = 1 /\ ~Resolved("Check")
    /\ Count("Target") = 1 /\ HookCount("Cleanup") = 1 /\ sub.cleaned = 1

\* Whether the caller's harness has the batch hook x.
BatchHook(x) == IF kind = "function" THEN ~IsNil(fm[x]) ELSE ~IsNil(m[x])

\* Run has not yet passed its call of Init.
BeforeInit == pc \in {"FunctionMesa.Run", "Run"}

\* C10: in one Run call Init and Teardown are each invoked at most once;
\* while Init has not returned no sub-run has started and no case
\* callback has run; once past Init, Init was invoked once iff present;
\* Teardown is invoked only when every case of Cases has been reported
\* and no cleanup is pending, and nothing runs after it; and when Run
\* returns, Teardown was invoked once iff present.
C10_InitTeardownOnce ==
    /\ batch.nInit <= 1 /\ batch.nTeardown <= 1
    /\ BeforeInit =>
          /\ batch.nInit = 0 /\ idx = 0 /\ calls = << >> /\ outcome = << >>
    /\ ~BeforeInit => batch.nInit = (IF BatchHook("Init") THEN 1 ELSE 0)
    /\ batch.nTeardown = 1 => pc = "done"
    /\ pc = "done" =>
          /\ batch.nTeardown = (IF BatchHook("Teardown") THEN 1 ELSE 0)
          /\ idx = nCases /\ Len(outcome) = nCases
          /\ cleanups = << >> /\ calls = << >>
          /\ sub.registered = sub.cleaned

\* Run returned: Init and Teardown ran once each around two cases, the
\* first of which failed.
C10_Witness ==
    /\ pc = "done" /\ batch.nInit = 1 /\ batch.nTeardown = 1
    /\ Len(outcome) = 2 /\ outcome[1].result = "failed"
    /\ outcome[2].result = "passed"

\* C11 as stated: once Init has recorded a failure against the batch,
\* fatal or not, no case of the harness is run; and a Run call whose
\* Init recorded no failure invokes Teardown (if present) when it returns,
\* whatever the outcomes of the cases.
C11_InitFailurePolicy ==
    /\ (batch.failed /\ pc # "done") => (idx = 0 /\ outcome = << >>)
    /\ (pc = "done" /\ BatchHook("Teardown")) => batch.nTeardown = 1

\* Init recorded a non-fatal failure and a case has run its Target.
C11_Witness ==
    /\ batch.nInit = 1 /\ batch.failed /\ batch.nTeardown = 0
    /\ pc = "report" /\ Count("Target") = 1

\* Positions of the thread of control inside a sub-run.
InSubRun ==
    pc \in {"t.Run", "FieldsFn", "NewInstance", "InputFn", "t.Cleanup",
            "BeforeCall", "Target", "StopTimer", "Check", "cleanup", "report"}

\* C12: cases run one at a time in list order: the k-th report belongs
\* to the k-th case; while the sub-run of case idx is in progress every
\* earlier case has been reported and the instance in use is the one of
\* case idx; between sub-runs no callback is in progress, no cleanup is
\* pending and no instance is live.
C12_SequentialInOrder ==
    /\ \A k \in 1..Len(outcome) : outcome[k].case = k
    /\ InSubRun => (idx >= 1 /\ idx <= nCases /\ Len(outcome) = idx - 1)
    /\ ~InSubRun =>
          /\ Len(outcome) = idx
          /\ calls = << >> /\ cleanups = << >> /\ inst = NoInst
          /\ sub.registered = 0 /\ sub.cleaned = 0
    /\ inst.id \in {-1, 0, idx}
    /\ \A x \in {"ifnInst", "ckInst", "clInst"} : args[x].id \in {-1, 0, idx}

\* The second case is about to be reported, its cleanup has run, and the
\* first case was reported before it started.
C12_Witness ==
    /\ pc = "report" /\ idx = 2 /\ Len(outcome) = 1 /\ outcome[1].case = 1
    /\ kind = "method" /\ inst.id = 2 /\ args.clInst.id = 2
    /\ HookCount("Cleanup") = 1

\* The last call Target made on its Ctx asked for the handle of the
\* other mode.
WrongMode ==
    \/ args.access = "T" /\ kind = "benchmark"
    \/ args.access \in {"B", "ReportMetric"} /\ kind # "benchmark"

EarlierOverrode(x) ==
    Len(outcome) >= 1 /\ x \in outcome[Len(outcome)].own

\* Every case resolves its hooks afresh: the harness-level hook of a kind
\* runs for a case without its own, whatever the case before did.
FreshResolution ==
    \A x \in HookKinds :
      (pc = "report" /\ IsNil(elem[x]) /\ ~IsNil(m[x])) =>
         (Count("m." \o x) = 1 /\ Count("tt." \o x) = 0)

\* One step of Run leaves the caller's harness, the translated harness
\* and the slice element of the running case as they were.
HarnessKept ==
    /\ fm' = fm
    /\ pc # "FunctionMesa.Run" => m' = m
    /\ (InSubRun /\ (pc # "report" \/ RunsAgain)) => (elem' = elem /\ c' = c)

\* C14: resolution is done per case and nothing is written to the
\* harness: a case without its own hook of a kind runs the harness-level
\* hook of that kind, also right after a case that ran its own; no step
\* of Run changes the harness-level hooks; and the element of Cases that
\* a sub-run works on keeps the literal Fields and Input, the providers
\* and the hooks the caller gave it while FieldsFn and InputFn assign
\* their values to the range variable.
C14_HarnessUnchanged == []FreshResolution /\ [][HarnessKept]_vars

\* The second case, which has no Check and no Cleanup of its own, ran the
\* harness-level ones after a first case that ran its own, and its
\* providers' values are in the range variable only.
C14_Witness ==
    /\ pc = "report" /\ idx = 2 /\ kind = "method"
    /\ EarlierOverrode("Check") /\ EarlierOverrode("Cleanup")
    /\ IsNil(elem.Check) /\ Count("m.Check") = 1
    /\ IsNil(elem.Cleanup) /\ Count("m.Cleanup") = 1
    /\ elem.Fields = <<0>> /\ tt.Fields = <<1>>
    /\ elem.Input = <<1>> /\ tt.Input = <<2>>

\* C15: in the buffer scenario run by the method harness (limit 10,
\* Target = Add(msg)): Check of a case without a pre-call of its own sees
\* out = nil and a buffer holding exactly the input message; Check of a
\* case whose own BeforeCall added ten messages sees out =
\* BufferFullError and the ten messages of the pre-call: what BeforeCall
\* did to the instance is what Target and Check find.
C15_PreCallStateObserved ==
    (kind = "method" /\ HookCount("Check") = 1) =>
      /\ args.ckInst = inst /\ inst.id = idx /\ inst.limit = 10
      /\ Count("tt.BeforeCall") = 0 =>
            /\ args.ckOut = Zero
            /\ args.ckInst.msgs = <<elem.Input>>
      /\ Count("tt.BeforeCall") = 1 =>
            /\ args.ckOut = BufferFullError
            /\ Len(args.ckInst.msgs) = 10
            /\ \A k \in 1..10 : args.ckInst.msgs[k] # elem.Input

\* Case B has been checked: its Check saw BufferFullError.
C15_Witness ==
    /\ kind = "method" /\ pc = "report" /\ Count("tt.BeforeCall") = 1
    /\ HookCount("Check") = 1 /\ args.ckOut = BufferFullError
    /\ elem.Input = <<"x", 1>> /\ Len(inst.msgs) = 10

\* The sub-run got as far as calling NewInstance and was not aborted in it.
Constructed == Count("NewInstance") = 1 /\ sub.abort # "NewInstance"

\* C16: in a correctness run of the method harness NewInstance is never
\* invoked twice for a case and is invoked once for every non-skipped
\* case that gets to line 196; it receives the resolved Fields; the
\* instance it returned, made for this case and no other, is the one in
\* use for the rest of the sub-run and the one InputFn, Check and Cleanup
\* received; and Check sees Target applied once to that fresh instance:
\* value = Fields + Input (0 + 1 = 1, 1 + 2 = 3), whatever ran before.
C16_FreshInstancePerCase ==
    kind = "method" =>
      /\ Count("NewInstance") <= 1
      /\ (pc = "report" /\ ~elem.Skip /\ sub.abort # "FieldsFn") =>
            Count("NewInstance") = 1
      /\ Count("NewInstance") = 1 =>
            args.fields = (IF IsNil(elem.FieldsFn) THEN elem.Fields
                           ELSE elem.FieldsFn.ret)
      /\ Constructed =>
            /\ inst.id = idx
            /\ inst.Value = args.fields[1] + Count("Target") * tt.Input[1]
            /\ Count("Target") <= 1
      /\ Count("InputFn") = 1 =>
            args.ifnInst = [id |-> idx, Value |-> args.fields[1]]
      /\ HookCount("Check") = 1 =>
            /\ args.ckInst.id = idx
            /\ args.ckInst.Value = args.fields[1] + args.ckIn[1]
            /\ (args.fields = <<0>> /\ args.ckIn = <<1>>) => args.ckInst.Value = 1
            /\ (args.fields = <<1>> /\ args.ckIn = <<2>>) => args.ckInst.Value = 3
      /\ HookCount("Cleanup") = 1 => args.clInst = inst

\* The second case, Fields = 1 and Input = 2 from its providers, was
\* checked on an instance of its own worth 3, after a first case ran.
C16_Witness ==
    /\ kind = "method" /\ idx = 2 /\ Len(outcome) = 1
    /\ outcome[1].result = "passed"
    /\ HookCount("Check") = 1 /\ args.ckInst = [id |-> 2, Value |-> 3]
    /\ args.fields = <<1>> /\ args.ckIn = <<2>>
    /\ pc = "report" /\ args.clInst = [id |-> 2, Value |-> 3]

\* The value of the most recent SetValue(name, _) of the calls log, nil
\* when there is none.
LastSet(log, name) ==
    LET ks == {k \in 1..Len(log) : log[k][1] = name}
    IN  IF ks = {} THEN Zero
        ELSE log[CHOOSE k \in ks : \A j \in ks : j <= k][2]

\* GetValue of every name is what the calls made so far left there.
LastWriteWins == \A name \in Names : GetValue(ctx, name) = LastSet(args.sets, name)

\* A step in which a hook called SetValue(name, v): GetValue(name) is v
\* afterwards, every other name reads as before, and so do the metrics.
SetValueFrame ==
    Len(args'.sets) = Len(args.sets) + 1 =>
      LET st == args'.sets[Len(args'.sets)] IN
      /\ GetValue(ctx', st[1]) = st[2]
      /\ \A o \in Names \ {st[1]} : GetValue(ctx', o) = GetValue(ctx, o)
      /\ ctx'.metrics = ctx.metrics

\* C17: on the Ctx of a sub-run GetValue(name) is always the value of the
\* most recent SetValue(name, _), and nil, without a failure, for a name
\* never set; a SetValue changes neither the other names nor the metric
\* totals.
C17_LastWriteWins == []LastWriteWins /\ [][SetValueFrame]_vars

\* A benchmark sub-run whose hooks set "a" twice and "b" never, after
\* Target reported a metric: "a" reads as the second value, "b" as nil,
\* and the sub-run has not failed.
C17_Witness ==
    /\ kind = "benchmark"
    /\ args.sets = << <<"a", <<1>>>>, <<"a", <<2>>>> >>
    /\ GetValue(ctx, "a") = <<2>> /\ GetValue(ctx, "b") = Zero
    /\ "ops" \in DOMAIN ctx.metrics
    /\ ~sub.failed

\* C18: when a hook called MustAssert[T] on a value whose dynamic type is
\* not T, the "Cannot assert type" failure is recorded, the sub-run is
\* failed and ended inside that hook, and nothing the hook or the
\* sub-run would have done next happened: no SetValue of that hook (only
\* the registered cleanup may have stored something), no Target, no
\* Check; when the dynamic type is T the caller received the very value
\* and no failure was recorded.
C18_MustAssert ==
    args.cast.called =>
      IF args.cast.in.type # args.cast.T
      THEN /\ args.cast.failure = "Cannot assert type"
           /\ sub.failed /\ sub.abort = "BeforeCall"
           /\ Len(args.sets) <= HookCount("Cleanup")
           /\ HookCount("Cleanup") = 0 => ctx.values = << >>
           /\ Count("Target") = 0 /\ HookCount("Check") = 0
           /\ pc \in {"cleanup", "report"}
      ELSE /\ args.cast.got = args.cast.in
           /\ args.cast.failure = ""
           /\ ~sub.failed /\ sub.abort = ""
           /\ pc \in {"cleanup", "report"} => Count("Target") >= 1

\* A test case whose BeforeCall asserted a uint to be an int has ended:
\* failed, Target never called, the registered cleanup run.
C18_Witness ==
    /\ kind = "method" /\ pc = "report"
    /\ args.cast.called /\ args.cast.T = "int" /\ args.cast.in.type = "uint"
    /\ sub.failed /\ Count("Target") = 0
    /\ sub.registered = 1 /\ sub.cleaned = 1

\* The name under which the hook x resolved to r is called.
Called(r, x) == IF r = "none" THEN << >> ELSE <<r \o "." \o x>>

\* The callbacks of a whole sub-run of the case, in the order of the
\* claim: FieldsFn if present, NewInstance, InputFn if present, the
\* resolved BeforeCall, Target, the resolved Check, the resolved cleanup.
Lifecycle(case, mesa) ==
    (IF IsNil(case.FieldsFn) THEN << >> ELSE <<"FieldsFn">>)
    \o <<"NewInstance">>
    \o (IF IsNil(case.InputFn) THEN << >> ELSE <<"InputFn">>)
    \o Called(Resolve(case.BeforeCall, mesa.BeforeCall), "BeforeCall")
    \o <<"Target">>
    \o Called(Resolve(case.Check, mesa.Check), "Check")
    \o Called(Resolve(case.Cleanup, mesa.Cleanup), "Cleanup")

IsPrefix(s, t) == Len(s) <= Len(t) /\ SubSeq(t, 1, Len(s)) = s

\* C19: in a test, while a non-skipped case has not been aborted, the
\* callbacks called so far are an initial part of the lifecycle, so each
\* was called at most once and in that order, and when the sub-run is
\* reported they are the whole of it; the cleanup is registered after
\* InputFn and before BeforeCall; the cleanup hook runs only once the
\* sub-run function is over, after Check, and Target only after the
\* resolved BeforeCall.
C19_LifecycleOrder ==
    (kind # "benchmark" /\ ~elem.Skip /\ sub.abort = "" /\ ~sub.panicking) =>
      /\ IsPrefix(calls, Lifecycle(elem, m))
      /\ pc = "report" => calls = Lifecycle(elem, m)
      /\ pc \in {"FieldsFn", "NewInstance", "InputFn", "t.Cleanup"} =>
            sub.registered = 0 /\ HookCount("BeforeCall") = 0
      /\ pc = "t.Cleanup" => Count("InputFn") = (IF IsNil(elem.InputFn) THEN 0 ELSE 1)
      /\ pc \in {"BeforeCall", "Target", "Check"} =>
            sub.registered = 1 /\ sub.cleaned = 0 /\ HookCount("Cleanup") = 0
      /\ pc = "Target" =>
            HookCount("BeforeCall") = Len(Called(ResolveBeforeCall(elem, m), "BeforeCall"))
      /\ sub.cleaned = 1 =>
            /\ Count("Target") = 1
            /\ HookCount("Check") = Len(Called(ResolveCheck(elem, m), "Check"))

\* A test case with both providers, its own BeforeCall and cleanup and
\* the harness's Check ran to the end in the order of the claim.
C19_Witness ==
    /\ kind = "method" /\ pc = "report" /\ sub.abort = "" /\ ~sub.failed
    /\ calls = <<"FieldsFn", "NewInstance", "InputFn", "tt.BeforeCall",
                 "Target", "m.Check", "tt.Cleanup">>

\* The steps of the sub-run function and of the host after it.
SubRunSteps == {"FieldsFn", "NewInstance", "InputFn", "t.Cleanup", "BeforeCall",
                "Target", "StopTimer", "Check", "cleanup", "report"}

\* How often the hook resolved to r is called in one execution.
Once(r) == IF r = "none" THEN 0 ELSE 1

\* C20: in one execution of a benchmark sub-run with iteration count
\* b.N that is not aborted, Target is called b.N times, no more, always
\* with the resolved Input and on the instance of the case (whose value
\* is Fields plus one Input per call); the resolved BeforeCall has been
\* called once when the first Target call starts and is never called
\* again; the resolved Check is called once, after the b.N-th call, and
\* is given the output of that call.
C20_BenchmarkLoop ==
    (kind = "benchmark" /\ pc \in SubRunSteps /\ ~elem.Skip /\ sub.abort = "") =>
      /\ Count("Target") = b.i /\ b.i <= b.N
      /\ pc \in {"StopTimer", "Check", "cleanup", "report"} => Count("Target") = b.N
      /\ pc \in {"FieldsFn", "NewInstance", "InputFn", "t.Cleanup", "BeforeCall"} =>
            Count("Target") = 0
      /\ Count("Target") >= 1 =>
            /\ args.tgIn = tt.Input /\ args.outOf = Count("Target")
            /\ inst.id = idx
            /\ inst.Value = args.fields[1] + Count("Target") * tt.Input[1]
      /\ (pc = "Target" \/ Count("Target") >= 1) =>
            HookCount("BeforeCall") = Once(ResolveBeforeCall(elem, m))
      /\ pc \in {"cleanup", "report"} =>
            HookCount("Check") = Once(ResolveCheck(elem, m))
      /\ HookCount("Check") >= 1 =>
            /\ HookCount("Check") = 1 /\ Count("Target") = b.N
            /\ args.ckOutOf = b.N /\ args.ckOut = out /\ args.ckIn = tt.Input
            /\ args.ckInst = [id |-> idx,
                              Value |-> args.fields[1] + b.N * tt.Input[1]]

\* An execution with N = MaxN is over: MaxN Target calls between one
\* BeforeCall and one Check, which got the output of the last.
C20_Witness ==
    /\ kind = "benchmark" /\ pc = "report" /\ b.N = MaxN /\ sub.abort = ""
    /\ Count("Target") = MaxN /\ HookCount("BeforeCall") = 1
    /\ HookCount("Check") = 1 /\ args.ckOutOf = MaxN
    /\ args.ckInst.Value = args.fields[1] + MaxN * args.ckIn[1]

\* A benchmark execution that has not been aborted.
Benchmarking ==
    kind = "benchmark" /\ pc \in SubRunSteps /\ ~elem.Skip /\ sub.abort = ""

\* The sub-run function has returned from Check and the host has not
\* yet run a cleanup.
CheckReturned == pc = "cleanup" /\ sub.cleaned = 0

\* The timer of a benchmark up to the end of the loop: reset between
\* BeforeCall and the first Target call and not before, stopped when the
\* metrics are reported and when Check is called.
TimerUpToCheck ==
    Benchmarking =>
      /\ pc \in {"FieldsFn", "NewInstance", "InputFn", "t.Cleanup", "BeforeCall"}
            => ~b.reset /\ b.timerOn
      /\ pc \in {"Target", "StopTimer"} => b.reset /\ b.timerOn
      /\ DOMAIN b.reported # {} => pc \in {"Check", "cleanup", "report"}
      /\ pc = "Check" => ~b.timerOn /\ b.reset

\* C21: the timer of a benchmark is reset after BeforeCall and before
\* the first Target call, is stopped after the loop before the metrics
\* are reported, and is not running from the end of the loop until Check
\* has returned, whatever the hooks did with the Ctx.
C21_TimerBracketing ==
    /\ TimerUpToCheck
    /\ (Benchmarking /\ CheckReturned) => ~b.timerOn

\* The claim for the hooks that do not call ReportMetric after the loop.
C21_UnlessCheckReports ==
    /\ TimerUpToCheck
    /\ (Benchmarking /\ CheckReturned /\ b.late = << >>) => ~b.timerOn

\* Check called ReportMetric in a benchmark whose loop was over and has
\* returned: the timer is running.
C21_Witness ==
    /\ Benchmarking /\ CheckReturned
    /\ Count("Target") = b.N /\ HookCount("Check") = 1
    /\ b.late # << >> /\ b.timerOn

\* What GetValue(name) returns once the calls st1 and then st2 (each
\* << >> or <<name, value>>) have been made on a new Ctx.
After2(st1, st2, name) ==
    IF st2 # << >> /\ st2[1] = name THEN st2[2]
    ELSE IF st1 # << >> /\ st1[1] = name THEN st1[2]
    ELSE Zero

CaseRunning == pc \in SubRunSteps

\* C23: also when hooks mark their sub-runs parallel, Teardown runs only
\* when every case has finished, that is, has been reported, and while
\* the batch Ctx is in use (Init, Teardown) no callback of a case is.
C23_TeardownAfterParallelCases ==
    /\ batch.nTeardown >= 1 => Len(outcome) = nCases
    /\ pc \in {"Run", "return"} => ~CaseRunning

\* The claim without its first half: Init and Teardown never run while
\* a callback of a case does, and Teardown runs when the range loop is
\* over.
C23_NoOverlap ==
    /\ batch.nTeardown >= 1 => idx >= nCases \/ batch.returned
    /\ pc \in {"Run", "return"} => ~CaseRunning
    /\ pc = "return" => idx = nCases /\ sub = NoSub

\* Teardown has run and a sub-run that paused in t.Parallel() goes on
\* with its Target.
C23_Witness ==
    /\ kind = "method" /\ batch.nTeardown = 1 /\ batch.returned
    /\ pc = "Target" /\ sub.parallel /\ Len(outcome) < nCases

\* C24: in a benchmark whose Target adds the Input to the value of the
\* instance made from Fields, Check sees the value Fields + Input (1 for
\* Fields = 0 and Input = 1, 3 for Fields = 1 and Input = 2) whatever
\* the iteration count.
C24_BenchmarkCheckValue ==
    (kind = "benchmark" /\ HookCount("Check") = 1) =>
      /\ args.ckInst.Value = args.fields[1] + args.ckIn[1]
      /\ (args.fields = <<0>> /\ args.ckIn = <<1>>) => args.ckInst.Value = 1
      /\ (args.fields = <<1>> /\ args.ckIn = <<2>>) => args.ckInst.Value = 3

\* What Check sees instead: one Input for every iteration, so the value
\* of the claim in the execution with N = 1 only.
C24_OneInputPerIteration ==
    (kind = "benchmark" /\ HookCount("Check") = 1) =>
      /\ args.ckInst.Value = args.fields[1] + b.N * args.ckIn[1]
      /\ b.N = 1 => args.ckInst.Value = args.fields[1] + args.ckIn[1]

\* The execution with N = MaxN of the case Fields = 0, Input = 1: Check
\* is handed an instance whose value is MaxN, not 1.
C24_Witness ==
    /\ kind = "benchmark" /\ b.N = MaxN /\ HookCount("Check") = 1
    /\ args.fields = <<0>> /\ args.ckIn = <<1>>
    /\ args.ckInst.Value = MaxN /\ args.ckInst.Value # 1

\* C25: a sub-run aborted inside FieldsFn, NewInstance or InputFn has no
\* cleanup registered, so no cleanup hook runs for it, and its
\* BeforeCall, Target and Check are never called; a sub-run that got
\* past InputFn has exactly one cleanup callback registered, a no-op
\* when neither the case nor the harness has a Cleanup hook, and that
\* one callback has run when the sub-run is reported.
C25_CleanupRegisteredLate ==
    (pc \in SubRunSteps /\ ~elem.Skip) =>
      /\ sub.abort \in Early =>
            /\ sub.registered = 0 /\ cleanups = << >> /\ sub.cleaned = 0
            /\ HookCount("Cleanup") = 0 /\ HookCount("BeforeCall") = 0
            /\ Count("Target") = 0 /\ HookCount("Check") = 0
      /\ pc \in {"FieldsFn", "NewInstance", "InputFn", "t.Cleanup"} =>
            sub.registered = 0 /\ cleanups = << >>
      /\ pc \in {"BeforeCall", "Target", "StopTimer", "Check"} =>
            /\ sub.registered = 1
            /\ cleanups = <<ResolveCleanup(elem, m)>>
      /\ (pc = "report" /\ sub.abort \notin Early) =>
            /\ sub.registered = 1 /\ sub.cleaned = 1
            /\ HookCount("Cleanup") = Once(ResolveCleanup(elem, m))

\* A case of a harness with a Cleanup hook was aborted by a fatal
\* assertion in NewInstance and is reported: nothing was registered and
\* no hook ran.
C25_Witness ==
    /\ pc = "report" /\ sub.abort = "NewInstance" /\ ~sub.panicking
    /\ ~IsNil(m.Cleanup) /\ ~IsNil(elem.Cleanup)
    /\ sub.registered = 0 /\ HookCount("Cleanup") = 0 /\ Count("Target") = 0

\* The names under which the sequence of reports reps holds a value.
NamesOf(reps) == {reps[k][2] : k \in DOMAIN reps}

\* The values the sequence of reports reps holds under name, in order.
ValuesOf(reps, name) ==
    LET sel == SelectSeq(reps, LAMBDA x : x[2] = name)
    IN  [k \in DOMAIN sel |-> sel[k][1]]

\* The float64 total of the values reps holds under name.
TotalOf(reps, name) == Total(ValuesOf(reps, name), Len(ValuesOf(reps, name)))

\* C26: when an execution of a benchmark sub-run has got past its loop,
\* the host has been given one value for every name the Ctx held a total
\* for at the end of the loop and for no other name: the float64 total
\* of everything accumulated under the name since the Ctx was made, by
\* BeforeCall as well as by Target, divided by N; what Check adds
\* afterwards changes the Ctx but not what the host was given.
C26_MetricsReportedOnce ==
    MetricsReported =>
      /\ DOMAIN b.reported = NamesOf(b.samples)
      /\ \A name \in DOMAIN b.reported :
            b.reported[name] = FDiv(TotalOf(b.samples, name), b.N)
      /\ DOMAIN ctx.metrics = NamesOf(b.samples \o b.late)
      /\ \A name \in DOMAIN ctx.metrics :
            ctx.metrics[name] = TotalOf(b.samples \o b.late, name)

\* N = MaxN: BeforeCall reported 2 and every Target call 1 under "ops",
\* Check then 4 under "ops" as well; the host holds (2 + MaxN) / MaxN for
\* "ops" while the Ctx holds 2 + MaxN + 4.
C26_Witness ==
    /\ kind = "benchmark" /\ pc = "report" /\ sub.abort = "" /\ b.N = MaxN
    /\ Len(b.samples) = MaxN + 1 /\ b.samples[1] = <<Float(2), "ops">>
    /\ b.late = << <<Float(4), "ops">> >>
    /\ DOMAIN b.reported = {"ops"}
    /\ b.reported["ops"] = FDiv(Float(2 + MaxN), MaxN)
    /\ ctx.metrics["ops"] = Float(2 + MaxN + 4)

\* C27: the Ctx of Init and Teardown holds what Init stored and nothing
\* else, so Teardown reads the value of Init and reads no value of a
\* case; and the Ctx of a sub-run holds only what the sub-run stored, so
\* no callback of a case reads the value of Init.
C27_BatchContextApart ==
    /\ pc \notin {"Run", "FunctionMesa.Run"} => bctx = Stored(newCtx, batch.initSet)
    /\ batch.nTeardown = 1 =>
          \A name \in Names : batch.tdSeen[name] = After2(<< >>, batch.initSet, name)
    /\ (pc \in SubRunSteps /\ ~elem.Skip) =>
          /\ \A name \in Names : GetValue(ctx, name) = LastSet(args.sets, name)
          /\ HookCount("Check") = 1 =>
                \A name \in Names :
                   args.ckSeen[name] =
                     (IF HookCount("BeforeCall") = 1 /\ args.bcSet # << >>
                         /\ args.bcSet[1] = name
                      THEN args.bcSet[2] ELSE Zero)

\* Init stored 1 under "a", the last case stored 2 under "a" and read
\* nothing in its Check, and Teardown has read 1 under "a" and nothing
\* under "b".
C27_Witness ==
    /\ pc = "done" /\ batch.nInit = 1 /\ batch.nTeardown = 1
    /\ batch.initSet = <<"a", <<1>>>> /\ Len(outcome) >= 1
    /\ GetValue(batch.last, "a") = <<2>>
    /\ batch.tdSeen["a"] = <<1>> /\ batch.tdSeen["b"] = Zero
    /\ GetValue(bctx, "a") = <<1>>

\* Run is over: it returned, or a fatal assertion in Init ended it.
RunOver == pc \in {"done", "exit"}

\* What has happened when Run has returned: every case has been reported
\* as skipped, passed or failed, no registered cleanup is left to run,
\* Teardown has run once if it was deferred, and Init once if present;
\* with no case nothing else ran.  A Run ended by Init has run no case.
FinalState ==
    /\ pc = "report" => sub.cleaned = sub.registered /\ cleanups = << >>
    /\ pc = "done" =>
          /\ Len(outcome) = nCases /\ cleanups = << >> /\ calls = << >>
          /\ \A k \in 1..nCases :
                /\ outcome[k].case = k
                /\ outcome[k].result \in {"skipped", "passed", "failed"}
          /\ batch.nInit = (IF IsNil(m.Init) THEN 0 ELSE 1)
          /\ batch.nTeardown = (IF IsNil(m.Teardown) THEN 0 ELSE 1)
    /\ pc = "exit" =>
          outcome = << >> /\ batch.nInit = 1 /\ batch.nTeardown = 0 /\ idx = 0

\* C28: when every callback terminates Run terminates, and by then every
\* case has its outcome, every registered cleanup has run and Teardown
\* has run if it is present and Init did not abort.
C28_RunTerminates == <>RunOver /\ []FinalState

\* The claim for the harnesses whose sub-runs cannot panic, and
\* termination of the process for all of them.
C28_UnlessPanic ==
    /\ (kind = "function" \/ <>RunOver)
    /\ <>(RunOver \/ pc = "crashed")
    /\ []FinalState

\* The function harness has panicked in the sub-run of a case without
\* InputFn: the process is gone with cases that never ran and a Teardown
\* that was deferred and never ran.
C28_Witness ==
    /\ kind = "function" /\ pc = "crashed" /\ Len(outcome) < nCases
    /\ batch.deferred /\ batch.nTeardown = 0

====
